---- MODULE Spec2Model ----
(***************************************************************************)
(* A model of the cleanup engine of cleanmymac_core.py: the containment    *)
(* guard (is_within), the directory enumeration (iter_entries), the size   *)
(* accountant (get_dir_size), the safe delete (_safe_delete) and the four  *)
(* sweeps of class CleanMyMac, run against a small file tree.              *)
(*                                                                         *)
(* A path is a sequence of names.  The file tree is a function from a      *)
(* fixed universe of paths to nodes; a node of kind "none" is absent.      *)
(* Each sweep is one action: the whole method, from its first line to its  *)
(* return or to the exception that leaves it.                              *)
(* The scan for large files (find_large_files) is an action of a second     *)
(* specification, ScanSpec, over home trees of its own.                    *)
(***************************************************************************)
EXTENDS Integers, Sequences, FiniteSets, TLC

VARIABLES
    fs,           \* the file tree: path -> node
    stale,        \* paths a directory listing still yields although the entry is gone
    euid,         \* os.geteuid() (the model takes os.getuid() to be the same)
    sudo_user,    \* os.environ.get("SUDO_USER"), NoUser when unset
    tools,        \* how the external commands end: [osascript, reexec]
    home,         \* self.home
    dry_run,      \* self.dry_run
    stats,        \* self.stats
    cleaned_size, \* self.cleaned_size
    calls,        \* number of sweep calls made so far
    last,         \* what the latest sweep call did and returned
    prev,         \* the same for the call before it
    found,        \* the arguments and the result of the latest find_large_files call
    returned      \* the sum of the CleanStats the sweeps of this engine have returned

vars == <<fs, stale, euid, sudo_user, tools, home, dry_run, stats, cleaned_size,
          calls, last, prev, found, returned>>

(***************************************************************************)
(* Bounds of the model.                                                    *)
(***************************************************************************)
\* The most sweep calls in one behaviour.
MaxCalls == 2
\* The most symbolic links resolve() follows in one path.
MaxHops == 2

(***************************************************************************)
(* The path universe.                                                      *)
(***************************************************************************)
NoUser == "-"
ALICE == <<"Users", "alice">>
ROOTHOME == <<"var", "root">>
VOLUMES == <<"Volumes">>
USB == VOLUMES \o <<"usb">>

\* pwd.getpwnam: the password database knows alice and root only.
PwKnown == {"alice", "root"}
pw_dir(u) == IF u = "alice" THEN ALICE ELSE ROOTHOME
pw_uid(u) == IF u = "alice" THEN 501 ELSE 0
\* Path.home() of the running process, by its uid.
PathHome(uid) == IF uid = 0 THEN ROOTHOME ELSE ALICE
\* str(uid)
UidStr(uid) == IF uid = 0 THEN "0" ELSE "501"

CachesOf(h) == h \o <<"Library", "Caches">>
TrashOf(h) == h \o <<".Trash">>
LogsOf(h) == h \o <<"Library", "Logs">>

\* Every path of the universe, parents before children; the order inside one
\* directory is the order in which the directory is listed.
AllPaths ==
    << <<"Users">>, ALICE,
       ALICE \o <<"doc.txt">>, ALICE \o <<"docs">>, ALICE \o <<"docs", "d.log">>,
       ALICE \o <<"Library">>,
       CachesOf(ALICE), CachesOf(ALICE) \o <<"c1">>, CachesOf(ALICE) \o <<"c1", "x">>,
       CachesOf(ALICE) \o <<"c1", "y">>, CachesOf(ALICE) \o <<"c2">>,
       CachesOf(ALICE) \o <<"c2", "z">>,
       TrashOf(ALICE), TrashOf(ALICE) \o <<"t1">>, TrashOf(ALICE) \o <<"t1", "x">>,
       TrashOf(ALICE) \o <<"t2">>,
       LogsOf(ALICE), LogsOf(ALICE) \o <<"app.log">>, LogsOf(ALICE) \o <<"keep.dat">>,
       LogsOf(ALICE) \o <<"old.log">>, LogsOf(ALICE) \o <<"old.log", "in.txt">>,
       LogsOf(ALICE) \o <<"old.log", "data.bin">>, LogsOf(ALICE) \o <<"ln.txt">>,
       <<"var">>, ROOTHOME, TrashOf(ROOTHOME), TrashOf(ROOTHOME) \o <<"r1">>,
       VOLUMES, USB, USB \o <<".Trashes">>,
       USB \o <<".Trashes", "501">>, USB \o <<".Trashes", "501", "v1">>,
       USB \o <<".Trashes", "0">>, USB \o <<".Trashes", "0", "w1">>,
       USB \o <<".Trash">>, USB \o <<".Trash", "v2">> >>

Paths == {AllPaths[i] : i \in 1..Len(AllPaths)}

\* The members of S in listing order.
InOrder(S) == SelectSeq(AllPaths, LAMBDA p : p \in S)

(***************************************************************************)
(* Nodes.  perm is "ok", "locked" (removing the entry is refused),         *)
(* "noread" (a directory whose listing is refused) or "nosearch" (a        *)
(* directory that lists its names but refuses lstat of them).              *)
(***************************************************************************)
None == [kind |-> "none", size |-> 0, tgt |-> <<>>, perm |-> "ok"]
File(n) == [kind |-> "file", size |-> n, tgt |-> <<>>, perm |-> "ok"]
Locked(n) == [kind |-> "file", size |-> n, tgt |-> <<>>, perm |-> "locked"]
Dir == [kind |-> "dir", size |-> 0, tgt |-> <<>>, perm |-> "ok"]
DirP(pm) == [kind |-> "dir", size |-> 0, tgt |-> <<>>, perm |-> pm]
\* A symbolic link: its own lstat size is the length of the path it names.
Link(t) == [kind |-> "link", size |-> Len(t), tgt |-> t, perm |-> "ok"]

NodeAt(f, p) == IF p \in DOMAIN f THEN f[p] ELSE None

IsPrefix(a, b) == Len(a) <= Len(b) /\ SubSeq(b, 1, Len(a)) = a
Parent(p) == SubSeq(p, 1, Len(p) - 1)
Children(f, d) == {p \in DOMAIN f : Len(p) = Len(d) + 1 /\ IsPrefix(d, p) /\ f[p].kind # "none"}
Under(d) == {p \in Paths : IsPrefix(d, p) /\ p # d}

RECURSIVE SumSizes(_, _)
SumSizes(f, S) ==
    IF S = {} THEN 0
    ELSE LET p == CHOOSE q \in S : TRUE IN f[p].size + SumSizes(f, S \ {p})

(***************************************************************************)
(* Path.resolve() (non-strict): follows the symbolic links met along the   *)
(* path, the last component included; a component that does not exist or   *)
(* cannot be read is kept as it is.                                        *)
(***************************************************************************)
FollowsLink(f, dir, n, hops) ==
    n.kind = "link" /\ NodeAt(f, dir).perm # "nosearch" /\ hops > 0

RECURSIVE ResolveFrom(_, _, _, _)
ResolveFrom(f, cur, rest, hops) ==
    IF rest = <<>> THEN cur
    ELSE IF FollowsLink(f, cur, NodeAt(f, Append(cur, Head(rest))), hops)
    THEN ResolveFrom(f, <<>>, NodeAt(f, Append(cur, Head(rest))).tgt \o Tail(rest), hops - 1)
    ELSE ResolveFrom(f, Append(cur, Head(rest)), Tail(rest), hops)

Resolve(f, p) == ResolveFrom(f, <<>>, p, MaxHops)

\* Path.exists() / Path.is_dir(): follow links.
Exists(f, p) == NodeAt(f, Resolve(f, p)).kind # "none"
IsDir(f, p) == NodeAt(f, Resolve(f, p)).kind = "dir"

\* A containment check on the paths as written, resolving nothing.
is_within_unresolved(f, base, target) == IsPrefix(base, target)

\* is_within(base, target): target.resolve() is base.resolve() or below it.
is_within(f, base, target) == IsPrefix(Resolve(f, base), Resolve(f, target))

(***************************************************************************)
(* iter_entries(path): the entries os.scandir yields.  PermissionError and *)
(* FileNotFoundError are caught inside the generator, so the caller sees   *)
(* an empty enumeration and never an exception: perm_error is FALSE.       *)
(***************************************************************************)
Listing(f, st, d) == Children(f, d) \cup {p \in st : Parent(p) = d}

\* An enumeration that lists a directory whatever its permissions.
iter_entries_unchecked(f, st, d) ==
    IF NodeAt(f, d).kind # "dir"
    THEN [entries |-> <<>>, perm_error |-> FALSE]
    ELSE [entries |-> InOrder(Listing(f, st, d)), perm_error |-> FALSE]

iter_entries(f, st, d) ==
    IF NodeAt(f, d).kind # "dir" \/ NodeAt(f, d).perm = "noread"
    THEN [entries |-> <<>>, perm_error |-> FALSE]
    ELSE [entries |-> InOrder(Listing(f, st, d)), perm_error |-> FALSE]

(***************************************************************************)
(* get_dir_size(path): os.walk without following links.  os.walk puts an   *)
(* entry whose is_dir() holds (a directory, or a link to one) into dirs    *)
(* and every other entry into files; only files are measured, by their own *)
(* lstat size, and only real directories are entered.  A directory that    *)
(* cannot be listed, and an entry that cannot be measured, add nothing.    *)
(***************************************************************************)
IsDirEntry(f, p) == f[p].kind = "dir" \/ (f[p].kind = "link" /\ IsDir(f, p))

RECURSIVE WalkFiles(_, _)
WalkFiles(f, d) ==
    IF NodeAt(f, d).kind # "dir" \/ NodeAt(f, d).perm \in {"noread", "nosearch"}
    THEN {}
    ELSE {c \in Children(f, d) : ~IsDirEntry(f, c)}
         \cup UNION {WalkFiles(f, c) : c \in {k \in Children(f, d) : f[k].kind = "dir"}}

get_dir_size(f, path) == SumSizes(f, WalkFiles(f, path))

(***************************************************************************)
(* shutil.rmtree(path): removes the entries of the directory in listing    *)
(* order, a subdirectory recursively and any other entry by unlink without *)
(* following it, then the directory itself; the first refusal raises and   *)
(* leaves what was removed so far removed.                                 *)
(***************************************************************************)
Removal(ok, f, removed) == [ok |-> ok, fs |-> f, removed |-> removed]

RECURSIVE RmTree(_, _, _)
RECURSIVE RmEntries(_, _, _, _)
RECURSIVE RmRest(_, _, _, _)

\* After the subdirectory Head(es) was handled with result r.
RmRest(r, st, es, removed) ==
    IF r.ok THEN RmEntries(r.fs, st, Tail(es), removed \cup r.removed)
    ELSE Removal(FALSE, r.fs, removed \cup r.removed)

RmEntries(f, st, es, removed) ==
    IF es = <<>> THEN Removal(TRUE, f, removed)
    ELSE IF f[Head(es)].kind = "none"
            \/ (f[Head(es)].perm = "locked" /\ f[Head(es)].kind # "dir")
    THEN Removal(FALSE, f, removed)
    ELSE IF f[Head(es)].kind = "dir"
    THEN RmRest(RmTree(f, st, Head(es)), st, es, removed)
    ELSE RmEntries([f EXCEPT ![Head(es)] = None], st, Tail(es), removed \cup {Head(es)})

\* os.rmdir(path), once the entries were handled with result r.
RmDir(f, d, r) ==
    IF ~r.ok \/ f[d].perm = "locked" THEN Removal(FALSE, r.fs, r.removed)
    ELSE Removal(TRUE, [r.fs EXCEPT ![d] = None], r.removed \cup {d})

RmTree(f, st, d) ==
    IF f[d].perm = "noread" \/ (f[d].perm = "nosearch" /\ Listing(f, st, d) # {})
    THEN Removal(FALSE, f, {})
    ELSE RmDir(f, d, RmEntries(f, st, InOrder(Listing(f, st, d)), {}))

(***************************************************************************)
(* CleanStats, and _safe_delete(base, target), which returns               *)
(* (bytes, files, dirs) and here also the tree it leaves and the paths it  *)
(* removed.                                                                *)
(***************************************************************************)
CleanStats(b, n, d) == [bytes_freed |-> b, files_deleted |-> n, dirs_deleted |-> d]
ZeroStats == CleanStats(0, 0, 0)
AddStats(s, t) == CleanStats(s.bytes_freed + t.bytes_freed,
                             s.files_deleted + t.files_deleted,
                             s.dirs_deleted + t.dirs_deleted)

Deleted(b, n, d, f, removed) == [got |-> CleanStats(b, n, d), fs |-> f, removed |-> removed]

\* A directory branch that reports the size measured before the attempt even when
\* shutil.rmtree raised.
DeleteDir_overstated(size_before, r) == Deleted(size_before, 0, 1, r.fs, r.removed)

\* The directory branch: size_before was measured, r is what shutil.rmtree did.
DeleteDir(size_before, r) ==
    IF r.ok THEN Deleted(size_before, 0, 1, r.fs, r.removed)
    ELSE Deleted(0, 0, 0, r.fs, r.removed)

\* A safe delete whose file branch unlinks before it looks at dry_run.
_safe_delete_nodry(f, st, dry, base, target) ==
    IF ~is_within(f, base, target) THEN Deleted(0, 0, 0, f, {})
    ELSE IF NodeAt(f, target).kind = "none"
              \/ NodeAt(f, Parent(target)).perm = "nosearch"
    THEN Deleted(0, 0, 0, f, {})
    ELSE IF f[target].kind = "dir"
    THEN IF dry THEN Deleted(get_dir_size(f, target), 0, 1, f, {})
         ELSE DeleteDir(get_dir_size(f, target), RmTree(f, st, target))
    ELSE IF f[target].perm = "locked" THEN Deleted(0, 0, 0, f, {})
         ELSE Deleted(f[target].size, 1, 0, [f EXCEPT ![target] = None], {target})

\* A safe delete whose dry run does not measure a directory.
_safe_delete_unmeasured(f, st, dry, base, target) ==
    IF ~is_within(f, base, target) THEN Deleted(0, 0, 0, f, {})
    ELSE IF NodeAt(f, target).kind = "none"
              \/ NodeAt(f, Parent(target)).perm = "nosearch"
    THEN Deleted(0, 0, 0, f, {})
    ELSE IF f[target].kind = "dir"
    THEN IF dry THEN Deleted(0, 0, 1, f, {})
         ELSE DeleteDir(get_dir_size(f, target), RmTree(f, st, target))
    ELSE IF dry THEN Deleted(f[target].size, 1, 0, f, {})
         ELSE IF f[target].perm = "locked" THEN Deleted(0, 0, 0, f, {})
         ELSE Deleted(f[target].size, 1, 0, [f EXCEPT ![target] = None], {target})

\* A safe delete that measures a link with a stat that follows it.
_safe_delete_follow(f, st, dry, base, target) ==
    IF ~is_within(f, base, target) THEN Deleted(0, 0, 0, f, {})
    ELSE IF NodeAt(f, target).kind = "none"
              \/ NodeAt(f, Parent(target)).perm = "nosearch"
    THEN Deleted(0, 0, 0, f, {})
    ELSE IF f[target].kind = "dir"
    THEN IF dry THEN Deleted(get_dir_size(f, target), 0, 1, f, {})
         ELSE DeleteDir(get_dir_size(f, target), RmTree(f, st, target))
    ELSE IF dry THEN Deleted(NodeAt(f, Resolve(f, target)).size, 1, 0, f, {})
         ELSE IF f[target].perm = "locked" THEN Deleted(0, 0, 0, f, {})
         ELSE Deleted(NodeAt(f, Resolve(f, target)).size, 1, 0,
                      [f EXCEPT ![target] = None], {target})

_safe_delete(f, st, dry, base, target) ==
    IF ~is_within(f, base, target) THEN Deleted(0, 0, 0, f, {})
    ELSE IF NodeAt(f, target).kind = "none"            \* lstat: FileNotFoundError
              \/ NodeAt(f, Parent(target)).perm = "nosearch"  \* lstat: PermissionError
    THEN Deleted(0, 0, 0, f, {})
    ELSE IF f[target].kind = "dir"
    THEN IF dry THEN Deleted(get_dir_size(f, target), 0, 1, f, {})
         ELSE DeleteDir(get_dir_size(f, target), RmTree(f, st, target))
    ELSE IF dry THEN Deleted(f[target].size, 1, 0, f, {})
         ELSE IF f[target].perm = "locked" THEN Deleted(0, 0, 0, f, {})
         ELSE Deleted(f[target].size, 1, 0, [f EXCEPT ![target] = None], {target})

\* An accumulation that adds the file count to dirs_deleted.
Tally_slip(acc, r) ==
    [got |-> AddStats(acc.got, CleanStats(r.got.bytes_freed, r.got.files_deleted,
                                          r.got.files_deleted)),
     fs |-> r.fs, removed |-> acc.removed \cup r.removed]

\* The loop "for entry in entries: b, f, d = self._safe_delete(base, target); total += ...".
Tally(acc, r) ==
    [got |-> AddStats(acc.got, r.got), fs |-> r.fs, removed |-> acc.removed \cup r.removed]

RECURSIVE DeleteEach(_, _, _, _, _)
DeleteEach(st, dry, base, es, acc) ==
    IF es = <<>> THEN acc
    ELSE DeleteEach(st, dry, base, Tail(es),
                    Tally(acc, _safe_delete(acc.fs, st, dry, base, Head(es))))

NoneYet(f) == [got |-> ZeroStats, fs |-> f, removed |-> {}]

(***************************************************************************)
(* What one sweep call does: the CleanStats it returns (ret), or raised    *)
(* when an exception leaves the method instead; whether it reached the     *)
(* lines that add the total to self.stats and self.cleaned_size (counted); *)
(* the tree it leaves; the paths the engine itself removed; the external   *)
(* commands it spawned, in order; the resolved bases it enumerated; and    *)
(* the bases whose enumeration was refused for lack of permission.         *)
(***************************************************************************)
Outcome(ret, raised, counted, f, removed, cmds, bases, denied) ==
    [ret |-> ret, raised |-> raised, counted |-> counted, fs |-> f,
     removed |-> removed, cmds |-> cmds, bases |-> bases, denied |-> denied]

Nothing(f) == Outcome(ZeroStats, FALSE, FALSE, f, {}, <<>>, {}, {})

DeniedAt(f, base) == IF NodeAt(f, base).kind = "dir" /\ NodeAt(f, base).perm = "noread"
                     THEN {base} ELSE {}

(***************************************************************************)
(* clean_system_caches                                                     *)
(***************************************************************************)
\* A sweep that returns its total before the lines that add it to self.stats.
Swept_unrecorded(r, base, denied) ==
    Outcome(r.got, FALSE, FALSE, r.fs, r.removed, <<>>, {base}, denied)

Swept(r, base, denied) == Outcome(r.got, FALSE, TRUE, r.fs, r.removed, <<>>, {base}, denied)

SweepBase(f, st, dry, base) ==
    DeleteEach(st, dry, base, iter_entries(f, st, base).entries, NoneYet(f))

clean_system_caches(f, st, h, dry) ==
    IF ~Exists(f, CachesOf(h)) THEN Outcome(ZeroStats, FALSE, TRUE, f, {}, <<>>, {}, {})
    ELSE Swept(SweepBase(f, st, dry, Resolve(f, CachesOf(h))),
               Resolve(f, CachesOf(h)), DeniedAt(f, Resolve(f, CachesOf(h))))

(***************************************************************************)
(* The external commands.  'tell application "Finder" to empty trash'      *)
(* empties the trashes of the desktop user (alice): her home trash and     *)
(* her per-volume trash.  "sudo -u USER find TRASH -mindepth 1 -maxdepth 1 *)
(* -delete" removes the files, links and empty directories directly in     *)
(* TRASH and fails when one of them stays.                                 *)
(***************************************************************************)
FinderTrashes == {TrashOf(ALICE), USB \o <<".Trashes", "501">>}

BridgeEmpty(f) ==
    [p \in Paths |-> IF \E t \in FinderTrashes : p \in Under(t) THEN None ELSE f[p]]

FindDeletes(f, t) ==
    {c \in Children(f, t) : f[c].perm # "locked" /\ (f[c].kind = "dir" => Children(f, c) = {})}

ReexecDelete(f, t) == [p \in Paths |-> IF p \in FindDeletes(f, t) THEN None ELSE f[p]]

(***************************************************************************)
(* clean_trash.  TrashFallback is the handler of "except PermissionError"  *)
(* around the enumeration loop; total is what the loop had counted.        *)
(***************************************************************************)
TrashFallback(uid, su, tl, r, base) ==
    IF tl.osascript = "ok"
    THEN Outcome(r.got, FALSE, FALSE, BridgeEmpty(r.fs), r.removed, <<"osascript">>,
                 {base}, {base})
    ELSE IF uid = 0 /\ su # NoUser
    THEN IF su \notin PwKnown      \* pwd.getpwnam: KeyError
         THEN Outcome(r.got, FALSE, FALSE, r.fs, r.removed, <<"osascript">>, {base}, {base})
         ELSE Outcome(r.got, FALSE, FALSE,
                      IF tl.reexec = "ok"
                      THEN ReexecDelete(r.fs, Resolve(r.fs, TrashOf(pw_dir(su))))
                      ELSE r.fs,
                      r.removed, <<"osascript", "sudo">>, {base}, {base})
    ELSE Outcome(r.got, FALSE, TRUE, r.fs, r.removed, <<"osascript">>, {base}, {base})

\* The try block and its handler, for the resolved base.
TrashAt(f, st, dry, uid, su, tl, base) ==
    IF iter_entries(f, st, base).perm_error
    THEN TrashFallback(uid, su, tl, SweepBase(f, st, dry, base), base)
    ELSE Swept(SweepBase(f, st, dry, base), base, DeniedAt(f, base))

clean_trash(f, st, h, dry, uid, su, tl) ==
    IF ~Exists(f, TrashOf(h)) THEN Nothing(f)
    ELSE TrashAt(f, st, dry, uid, su, tl, Resolve(f, TrashOf(h)))

(***************************************************************************)
(* clean_per_volume_trash.  Volumes.iterdir() is outside every try: when   *)
(* listing /Volumes is refused, PermissionError leaves the method.         *)
(***************************************************************************)
TargetUid(uid, su) ==
    IF uid = 0 /\ su # NoUser
    THEN IF su \in PwKnown THEN pw_uid(su) ELSE uid     \* KeyError: os.getuid()
    ELSE uid

RECURSIVE CandidatesOf(_, _)
CandidatesOf(vols, t) ==
    IF vols = <<>> THEN <<>>
    ELSE << Head(vols) \o <<".Trashes", UidStr(t)>>, Head(vols) \o <<".Trash">> >>
         \o CandidatesOf(Tail(vols), t)

Candidates(f, t) ==
    CandidatesOf(SelectSeq(InOrder(Children(f, VOLUMES)), LAMBDA v : IsDir(f, v)), t)

\* One candidate: acc carries total, the tree, what was removed, the bases
\* enumerated, those refused, and had_perm_issue.
Candidate(f, st, acc, base, r) ==
    [got |-> AddStats(acc.got, r.got), fs |-> r.fs,
     removed |-> acc.removed \cup r.removed,
     bases |-> acc.bases \cup {base},
     denied |-> acc.denied \cup DeniedAt(f, base),
     had_perm_issue |-> acc.had_perm_issue \/ iter_entries(f, st, base).perm_error]

SweepCandidate(st, dry, acc, base) ==
    Candidate(acc.fs, st, acc, base, SweepBase(acc.fs, st, dry, base))

RECURSIVE SweepCandidates(_, _, _, _)
SweepCandidates(st, dry, cs, acc) ==
    IF cs = <<>> THEN acc
    ELSE IF ~Exists(acc.fs, Head(cs)) THEN SweepCandidates(st, dry, Tail(cs), acc)
    ELSE SweepCandidates(st, dry, Tail(cs),
                         SweepCandidate(st, dry, acc, Resolve(acc.fs, Head(cs))))

\* An end of the sweep that runs the Finder fallback whether or not a listing was
\* refused.
VolumesDone_always(tl, r) ==
    Outcome(r.got, FALSE, TRUE, IF tl.osascript = "ok" THEN BridgeEmpty(r.fs) ELSE r.fs,
            r.removed, <<"osascript">>, r.bases, r.denied)

\* After the loop: the Finder fallback when had_perm_issue, then the accumulation.
VolumesDone(tl, r) ==
    IF r.had_perm_issue
    THEN Outcome(r.got, FALSE, TRUE,
                 IF tl.osascript = "ok" THEN BridgeEmpty(r.fs) ELSE r.fs,
                 r.removed, <<"osascript">>, r.bases, r.denied)
    ELSE Outcome(r.got, FALSE, TRUE, r.fs, r.removed, <<>>, r.bases, r.denied)

clean_per_volume_trash(f, st, dry, uid, su, tl) ==
    IF ~IsDir(f, VOLUMES) THEN Nothing(f)
    ELSE IF NodeAt(f, VOLUMES).perm = "noread"
    THEN Outcome(ZeroStats, TRUE, FALSE, f, {}, <<>>, {}, {VOLUMES})
    ELSE VolumesDone(tl,
            SweepCandidates(st, dry, Candidates(f, TargetUid(uid, su)),
                [got |-> ZeroStats, fs |-> f, removed |-> {}, bases |-> {},
                 denied |-> {}, had_perm_issue |-> FALSE]))

(***************************************************************************)
(* clean_logs: os.walk(base), top down, not following links; in each       *)
(* directory walked, every entry of files whose name ends in .log or .txt  *)
(* goes through _safe_delete.  A name that is listed but already gone      *)
(* counts as a file.  Removing files does not change which directories     *)
(* the walk enters, so the files are gathered first, in walk order.        *)
(***************************************************************************)
EndsWith(s, suffix) ==
    Len(s) >= Len(suffix) /\ SubSeq(s, Len(s) - Len(suffix) + 1, Len(s)) = suffix

Name(p) == p[Len(p)]

IsLogName(n) == EndsWith(n, ".log") \/ EndsWith(n, ".txt")

\* A walk that hands every entry of a directory to the loop, directories too.
WalkedFiles_all(f, st, d) == InOrder(Listing(f, st, d))

\* files of one directory of the walk, and the directories the walk enters from it.
WalkedFiles(f, st, d) ==
    InOrder({c \in Listing(f, st, d) : f[c].kind = "none" \/ ~IsDirEntry(f, c)})

WalkedDirs(f, d) ==
    IF f[d].perm = "nosearch" THEN <<>>
    ELSE InOrder({c \in Children(f, d) : f[c].kind = "dir"})

RECURSIVE WalkLogs(_, _, _)
RECURSIVE WalkInto(_, _, _)
WalkInto(f, st, subs) ==
    IF subs = <<>> THEN <<>>
    ELSE WalkLogs(f, st, Head(subs)) \o WalkInto(f, st, Tail(subs))

WalkLogs(f, st, d) ==
    IF NodeAt(f, d).kind # "dir" \/ NodeAt(f, d).perm = "noread" THEN <<>>
    ELSE SelectSeq(WalkedFiles(f, st, d), LAMBDA c : IsLogName(Name(c)))
         \o WalkInto(f, st, WalkedDirs(f, d))

clean_logs(f, st, h, dry) ==
    IF ~Exists(f, LogsOf(h)) THEN Nothing(f)
    ELSE Swept(DeleteEach(st, dry, Resolve(f, LogsOf(h)),
                          WalkLogs(f, st, Resolve(f, LogsOf(h))), NoneYet(f)),
               Resolve(f, LogsOf(h)), DeniedAt(f, Resolve(f, LogsOf(h))))

(***************************************************************************)
(* find_large_files(directory, min_size_mb, limit): os.walk from the        *)
(* directory, top down; in every directory walked the names Library,       *)
(* System and .Trash are taken out of dirs, and every name of files whose   *)
(* own size is above min_size_mb MiB is collected; the collection is        *)
(* sorted by size, largest first (a stable sort), and cut to limit unless   *)
(* limit is 0.  An argument left out takes its default.                     *)
(***************************************************************************)
MiB == 1048576
DefaultMinSizeMb == 100
DefaultLimit == 20

\* An argument: left out, or given.
NoDir == [set |-> FALSE, val |-> <<>>]
NoInt == [set |-> FALSE, val |-> 0]
Given(v) == [set |-> TRUE, val |-> v]
ArgOr(a, default) == IF a.set THEN a.val ELSE default

SkippedDirs == {"Library", "System", ".Trash"}

\* The tree of a home directory that is scanned for large files, in listing order.
BulkNames ==
    << "b01", "b02", "b03", "b04", "b05", "b06", "b07", "b08", "b09", "b10", "b11",
       "b12", "b13", "b14", "b15", "b16", "b17", "b18", "b19", "b20", "b21", "b22" >>
BULK == ALICE \o <<"bulk">>
WORK == ALICE \o <<"work">>
HomePaths ==
    << <<"Users">>, ALICE, ALICE \o <<"big.bin">>, ALICE \o <<"exact.bin">>,
       ALICE \o <<"note.txt">>,
       ALICE \o <<"Library">>, ALICE \o <<"Library", "cache.bin">>,
       ALICE \o <<".Trash">>, ALICE \o <<".Trash", "old.bin">>,
       WORK, WORK \o <<"mid.bin">>, WORK \o <<"same.bin">>, WORK \o <<"ln">>,
       WORK \o <<"dl">>,
       WORK \o <<"System">>, WORK \o <<"System", "deep.bin">>,
       BULK >>
    \o [i \in 1..Len(BulkNames) |-> BULK \o <<BulkNames[i]>>]
    \o << <<"var">>, ROOTHOME, ROOTHOME \o <<"r.bin">> >>

\* The paths of the tree in the order a listing yields them.
ListingOrder(f) == IF DOMAIN f = Paths THEN AllPaths ELSE HomePaths
OrderIn(f, S) == SelectSeq(ListingOrder(f), LAMBDA p : p \in S)

\* files of one directory of the walk, and the directories the walk goes on to.
LargeFiles(f, d) == OrderIn(f, {c \in Children(f, d) : ~IsDirEntry(f, c)})
LargeDirs(f, d) ==
    OrderIn(f, {c \in Children(f, d) : f[c].kind = "dir" /\ Name(c) \notin SkippedDirs})

RECURSIVE LargeWalk(_, _)
RECURSIVE LargeInto(_, _)
LargeInto(f, subs) ==
    IF subs = <<>> THEN <<>>
    ELSE LargeWalk(f, Head(subs)) \o LargeInto(f, Tail(subs))

LargeWalk(f, d) ==
    IF NodeAt(f, d).kind # "dir" \/ NodeAt(f, d).perm \in {"noread", "nosearch"}
    THEN <<>>
    ELSE LargeFiles(f, d) \o LargeInto(f, LargeDirs(f, d))

\* st.st_size >= min_size: a comparison that lets the minimum itself through.
IsLarge_orEqual(size, min_size_mb) == size >= min_size_mb * MiB

\* st.st_size > min_size
IsLarge(size, min_size_mb) == size > min_size_mb * MiB

Collected(f, walk) ==
    [i \in 1..Len(walk) |-> [path |-> walk[i], size |-> f[walk[i]].size]]

\* results.sort(key=size, reverse=True): equal sizes keep their order.
RECURSIVE InsertDesc(_, _)
InsertDesc(sorted, r) ==
    IF sorted = <<>> THEN <<r>>
    ELSE IF Head(sorted).size >= r.size THEN <<Head(sorted)>> \o InsertDesc(Tail(sorted), r)
    ELSE <<r>> \o sorted

RECURSIVE SortDesc(_, _)
SortDesc(rest, sorted) ==
    IF rest = <<>> THEN sorted
    ELSE SortDesc(Tail(rest), InsertDesc(sorted, Head(rest)))

\* results[:limit] if limit else results
Cut(results, limit) ==
    IF limit # 0
    THEN SubSeq(results, 1, IF limit < Len(results) THEN limit ELSE Len(results))
    ELSE results

LargeOf(f, walk, min_size_mb) ==
    SelectSeq(Collected(f, walk), LAMBDA r : IsLarge(r.size, min_size_mb))

find_large_files(f, h, directory, min_size_mb, limit) ==
    Cut(SortDesc(LargeOf(f, LargeWalk(f, ArgOr(directory, h)),
                         ArgOr(min_size_mb, DefaultMinSizeMb)), <<>>),
        ArgOr(limit, DefaultLimit))

(***************************************************************************)
(* CleanMyMac.__init__: the home directory the engine works on.            *)
(***************************************************************************)
\* A constructor that guesses the home of the desktop user when the lookup fails.
InitHome_guess(uid, su) ==
    IF su # NoUser /\ uid = 0
    THEN IF su \in PwKnown THEN pw_dir(su) ELSE ALICE
    ELSE PathHome(uid)

InitHome(uid, su) ==
    IF su # NoUser /\ uid = 0
    THEN IF su \in PwKnown THEN pw_dir(su) ELSE PathHome(uid)    \* KeyError: Path.home()
    ELSE PathHome(uid)

(***************************************************************************)
(* The trees the model starts from.  Each part of the tree (caches, home   *)
(* trash, logs, volumes) starts in one of a few shapes; the rest is fixed. *)
(* A shape gives the nodes of its part and the names of the part that are  *)
(* listed although already gone.                                           *)
(***************************************************************************)
DOC == ALICE \o <<"doc.txt">>
DOCS == ALICE \o <<"docs">>
C == CachesOf(ALICE)
T == TrashOf(ALICE)
L == LogsOf(ALICE)

Shape(nodes, gone) == [nodes |-> nodes, gone |-> gone]

FixedTree ==
    (<<"Users">> :> Dir) @@ (ALICE :> Dir) @@ (DOC :> File(50)) @@ (DOCS :> Dir)
    @@ (DOCS \o <<"d.log">> :> File(60)) @@ (ALICE \o <<"Library">> :> Dir)
    @@ (<<"var">> :> Dir) @@ (ROOTHOME :> Dir) @@ (TrashOf(ROOTHOME) :> Dir)
    @@ (TrashOf(ROOTHOME) \o <<"r1">> :> File(7))

CacheShapes ==
    { Shape(<< >>, {}),
      Shape((C :> Dir) @@ (C \o <<"c1">> :> Dir) @@ (C \o <<"c1", "x">> :> File(2))
            @@ (C \o <<"c1", "y">> :> File(4)) @@ (C \o <<"c2">> :> File(1)), {}),
      Shape((C :> Dir) @@ (C \o <<"c1">> :> Dir) @@ (C \o <<"c1", "x">> :> Link(DOCS))
            @@ (C \o <<"c1", "y">> :> Locked(4)) @@ (C \o <<"c2">> :> Link(DOC)), {}),
      Shape((C :> Dir) @@ (C \o <<"c1">> :> Link(C \o <<"c2">>))
            @@ (C \o <<"c2">> :> Locked(1)), {}),
      Shape((C :> Dir) @@ (C \o <<"c1">> :> Dir) @@ (C \o <<"c1", "x">> :> File(2))
            @@ (C \o <<"c2">> :> Dir) @@ (C \o <<"c2", "z">> :> Link(C \o <<"c1">>)), {}),
      Shape((C :> Dir) @@ (C \o <<"c1">> :> Dir) @@ (C \o <<"c1", "x">> :> Link(DOCS))
            @@ (C \o <<"c2">> :> Link(DOC)), {}),
      Shape((C :> DirP("noread")) @@ (C \o <<"c2">> :> File(1)), {}) }

TrashShapes ==
    { Shape(<< >>, {}),
      Shape((T :> Dir) @@ (T \o <<"t1">> :> Dir) @@ (T \o <<"t1", "x">> :> File(3))
            @@ (T \o <<"t2">> :> File(5)), {}),
      Shape((T :> Dir) @@ (T \o <<"t1">> :> Link(DOCS)), {T \o <<"t2">>}),
      Shape((T :> DirP("noread")) @@ (T \o <<"t1">> :> Dir) @@ (T \o <<"t1", "x">> :> File(3))
            @@ (T \o <<"t2">> :> File(5)), {}),
      Shape((T :> DirP("nosearch")) @@ (T \o <<"t2">> :> File(5)), {}) }

LogShapes ==
    { Shape(<< >>, {}),
      Shape((L :> Dir) @@ (L \o <<"app.log">> :> File(2)) @@ (L \o <<"keep.dat">> :> File(3))
            @@ (L \o <<"old.log">> :> Dir) @@ (L \o <<"old.log", "in.txt">> :> File(4))
            @@ (L \o <<"old.log", "data.bin">> :> File(6))
            @@ (L \o <<"ln.txt">> :> Link(DOC)), {}),
      Shape((L :> Dir) @@ (L \o <<"app.log">> :> Locked(2)) @@ (L \o <<"keep.dat">> :> File(3))
            @@ (L \o <<"old.log">> :> Link(DOCS))
            @@ (L \o <<"ln.txt">> :> Link(L \o <<"keep.dat">>)), {}) }

U501 == USB \o <<".Trashes", "501">>
U0 == USB \o <<".Trashes", "0">>
UT == USB \o <<".Trash">>

VolumeShapes ==
    { Shape(<< >>, {}),
      Shape((VOLUMES :> Dir) @@ (USB :> Dir) @@ (USB \o <<".Trashes">> :> Dir)
            @@ (U501 :> DirP("noread")) @@ (U501 \o <<"v1">> :> File(9))
            @@ (U0 :> Dir) @@ (U0 \o <<"w1">> :> File(11))
            @@ (UT :> Dir) @@ (UT \o <<"v2">> :> File(13)), {}),
      Shape((VOLUMES :> DirP("noread")) @@ (USB :> Dir) @@ (UT :> Dir)
            @@ (UT \o <<"v2">> :> File(13)), {}) }

TreeOf(c, t, l, v) ==
    LET given == c.nodes @@ t.nodes @@ l.nodes @@ v.nodes @@ FixedTree
    IN [p \in Paths |-> IF p \in DOMAIN given THEN given[p] ELSE None]

\* (effective uid, SUDO_USER): a plain user, alice under sudo, an elevated process
\* whose SUDO_USER names nobody in the password database, and a root login.
Identities == { <<501, NoUser>>, <<0, "alice">>, <<0, "ghost">>, <<0, NoUser>> }

ToolOutcomes ==
    { [osascript |-> "ok", reexec |-> "ok"],
      [osascript |-> "fail", reexec |-> "fail"] }

NoScan ==
    [scanned |-> FALSE, directory |-> NoDir, min_size_mb |-> NoInt, limit |-> NoInt,
     result |-> <<>>]

NoCall ==
    [op |-> "none", dry |-> FALSE, home |-> <<>>, before |-> << >>, ret |-> ZeroStats,
     raised |-> FALSE, counted |-> FALSE, removed |-> {}, cmds |-> <<>>,
     bases |-> {}, denied |-> {}]

Call(op, o) ==
    [op |-> op, dry |-> dry_run, home |-> home, before |-> fs, ret |-> o.ret,
     raised |-> o.raised, counted |-> o.counted, removed |-> o.removed, cmds |-> o.cmds,
     bases |-> o.bases, denied |-> o.denied]

Init ==
    \E c \in CacheShapes, t \in TrashShapes, l \in LogShapes, v \in VolumeShapes,
       id \in Identities, tl \in ToolOutcomes, d \in BOOLEAN :
        /\ fs = TreeOf(c, t, l, v)
        /\ stale = c.gone \cup t.gone \cup l.gone \cup v.gone
        /\ euid = id[1]
        /\ sudo_user = id[2]
        /\ tools = tl
        /\ home = InitHome(id[1], id[2])
        /\ dry_run = d
        /\ stats = ZeroStats
        /\ cleaned_size = 0
        /\ calls = 0
        /\ last = NoCall
        /\ prev = NoCall
        /\ found = NoScan
        /\ returned = ZeroStats

(***************************************************************************)
(* The operations.  A sweep that raises leaves self.stats as it was; one   *)
(* that returns before the accumulation lines does too.                    *)
(***************************************************************************)
Sweep(op, o) ==
    /\ calls < MaxCalls
    /\ fs' = o.fs
    /\ stale' = {}
    /\ stats' = IF o.counted THEN AddStats(stats, o.ret) ELSE stats
    /\ cleaned_size' = IF o.counted THEN cleaned_size + o.ret.bytes_freed ELSE cleaned_size
    /\ calls' = calls + 1
    /\ last' = Call(op, o)
    /\ prev' = last
    /\ returned' = IF o.raised THEN returned ELSE AddStats(returned, o.ret)
    /\ UNCHANGED <<euid, sudo_user, tools, home, dry_run, found>>

CleanSystemCaches == Sweep("caches", clean_system_caches(fs, stale, home, dry_run))

CleanTrash == Sweep("trash", clean_trash(fs, stale, home, dry_run, euid, sudo_user, tools))

CleanPerVolumeTrash ==
    Sweep("volumes", clean_per_volume_trash(fs, stale, dry_run, euid, sudo_user, tools))

CleanLogs == Sweep("logs", clean_logs(fs, stale, home, dry_run))

\* CleanMyMac(dry_run=d): a new engine on the same machine, in the other mode,
\* once the current engine has made a sweep.
NewEngine ==
    /\ calls < MaxCalls
    /\ last.op # "none" /\ last.dry = dry_run
    /\ dry_run' = ~dry_run
    /\ home' = InitHome(euid, sudo_user)
    /\ stats' = ZeroStats
    /\ cleaned_size' = 0
    /\ returned' = ZeroStats
    /\ UNCHANGED <<fs, stale, euid, sudo_user, tools, calls, last, prev, found>>

Next == CleanSystemCaches \/ CleanTrash \/ CleanPerVolumeTrash \/ CleanLogs \/ NewEngine

Spec == Init /\ [][Next]_vars

(***************************************************************************)
(* The scan for large files, on home trees of its own: a small one with an  *)
(* entry of every kind, and one that also holds a directory of 22 large     *)
(* files.                                                                   *)
(***************************************************************************)
HomeNodes ==
    (<<"Users">> :> Dir) @@ (ALICE :> Dir)
    @@ (ALICE \o <<"big.bin">> :> File(200 * MiB))
    @@ (ALICE \o <<"exact.bin">> :> File(100 * MiB))
    @@ (ALICE \o <<"note.txt">> :> File(1))
    @@ (ALICE \o <<"Library">> :> Dir)
    @@ (ALICE \o <<"Library", "cache.bin">> :> File(150 * MiB))
    @@ (ALICE \o <<".Trash">> :> Dir)
    @@ (ALICE \o <<".Trash", "old.bin">> :> File(300 * MiB))
    @@ (WORK :> Dir)
    @@ (WORK \o <<"mid.bin">> :> File(120 * MiB))
    @@ (WORK \o <<"same.bin">> :> File(200 * MiB))
    @@ (WORK \o <<"ln">> :> Link(ALICE \o <<"big.bin">>))
    @@ (WORK \o <<"dl">> :> Link(ALICE \o <<"Library">>))
    @@ (WORK \o <<"System">> :> Dir)
    @@ (WORK \o <<"System", "deep.bin">> :> File(180 * MiB))
    @@ (<<"var">> :> Dir) @@ (ROOTHOME :> Dir)
    @@ (ROOTHOME \o <<"r.bin">> :> File(101 * MiB))

BulkNodes ==
    (BULK :> Dir)
    @@ [p \in {BULK \o <<BulkNames[i]>> : i \in 1..Len(BulkNames)} |->
           File((100 + (CHOOSE i \in 1..Len(BulkNames) : BULK \o <<BulkNames[i]>> = p)) * MiB)]

HomePathSet == {HomePaths[i] : i \in 1..Len(HomePaths)}
HomeTree(nodes) == [p \in HomePathSet |-> IF p \in DOMAIN nodes THEN nodes[p] ELSE None]
HomeTrees == {HomeTree(HomeNodes), HomeTree(HomeNodes @@ BulkNodes)}

ScanDirs == {NoDir, Given(WORK), Given(BULK), Given(ALICE \o <<"Library">>),
             Given(ALICE \o <<"gone">>)}
ScanMins == {NoInt, Given(0), Given(150)}
ScanLimits == {NoInt, Given(0), Given(1), Given(3), Given(21)}

ScanInit ==
    \E t \in HomeTrees, id \in Identities :
        /\ fs = t
        /\ stale = {}
        /\ euid = id[1]
        /\ sudo_user = id[2]
        /\ tools = [osascript |-> "ok", reexec |-> "ok"]
        /\ home = InitHome(id[1], id[2])
        /\ dry_run = FALSE
        /\ stats = ZeroStats
        /\ cleaned_size = 0
        /\ calls = 0
        /\ last = NoCall
        /\ prev = NoCall
        /\ found = NoScan
        /\ returned = ZeroStats

FindLargeFiles ==
    \E d \in ScanDirs, m \in ScanMins, n \in ScanLimits :
        /\ found' = [scanned |-> TRUE, directory |-> d, min_size_mb |-> m, limit |-> n,
                     result |-> find_large_files(fs, home, d, m, n)]
        /\ UNCHANGED <<fs, stale, euid, sudo_user, tools, home, dry_run, stats,
                       cleaned_size, calls, last, prev, returned>>

ScanSpec == ScanInit /\ [][FindLargeFiles]_vars

(***************************************************************************)
(* Properties.                                                             *)
(***************************************************************************)
Swept1(call) == call.op \in {"caches", "trash", "volumes", "logs"}
ChangedSince(tree) == {p \in Paths : fs[p] # tree[p]}
InsideSome(bases, p) == \E b \in bases : Len(b) < Len(p) /\ \A i \in 1..Len(b) : p[i] = b[i]

\* The directories the sweeps take as bases.
SweepRoots == {C, T, L, TrashOf(ROOTHOME), U501, U0, UT}

\* The resolved path of t is neither the resolved path of b nor below it.
NotBelow(rb, rt) == ~(Len(rb) <= Len(rt) /\ \A i \in 1..Len(rb) : rt[i] = rb[i])
Outside(f, b, t) == NotBelow(Resolve(f, b), Resolve(f, t))

SkipsIt(r) == r.got = ZeroStats /\ r.fs = fs /\ r.removed = {}

\* C1: on every starting tree, a safe delete of a target whose resolved path lies
\* outside the base returns (0,0,0) and removes nothing, in dry-run and in real mode,
\* also when the target is a link inside the base that points outside; and whatever
\* a sweep removed or changed lies inside a base that sweep enumerated.
C1_Contained ==
    /\ calls = 0 =>
          \A b \in SweepRoots, t \in Paths, d \in BOOLEAN :
              Outside(fs, b, t) => SkipsIt(_safe_delete(fs, stale, d, b, t))
    /\ Swept1(last) =>
          /\ \A p \in last.removed : InsideSome(last.bases, p)
          /\ \A p \in ChangedSince(last.before) : InsideSome(last.bases, p)

\* A real cache sweep removed something while a link in the cache root that points
\* outside the root is still there, with its referent.
C1_Witness ==
    /\ last.op = "caches" /\ ~last.dry /\ last.removed # {}
    /\ fs[C \o <<"c2">>] = Link(DOC)
    /\ fs[DOC] = File(50)
    /\ Outside(fs, C, C \o <<"c2">>)

\* C2: a sweep of an engine in dry-run mode leaves the tree as it was, removes
\* nothing and spawns no external command, whatever the permissions.
C2_DryRunFrame ==
    (Swept1(last) /\ last.dry) =>
        /\ fs = last.before
        /\ last.removed = {}
        /\ last.cmds = <<>>

\* A dry-run sweep that found a file and a directory it would delete.
C2_Witness ==
    /\ Swept1(last) /\ last.dry
    /\ last.ret.files_deleted > 0 /\ last.ret.dirs_deleted > 0

\* The latest two calls are the same sweep, first by a dry-run engine and then by a
\* real one, on the same tree, and both returned.
DryThenReal ==
    /\ Swept1(prev) /\ prev.op = last.op /\ prev.home = last.home
    /\ prev.dry /\ ~last.dry
    /\ last.before = prev.before
    /\ ~prev.raised /\ ~last.raised

StatsLeq(s, t) ==
    /\ s.bytes_freed <= t.bytes_freed
    /\ s.files_deleted <= t.files_deleted
    /\ s.dirs_deleted <= t.dirs_deleted

\* No entry inside the bases refuses removal or listing.
AllRemovable(tree, bases) == \A p \in Paths : InsideSome(bases, p) => tree[p].perm = "ok"

\* No symbolic link inside the bases names a directory that is itself inside the
\* bases: removing that directory would turn the link from a directory entry, which
\* the size walk leaves out, into a dangling one, which it counts.
NoLinkToSweptDir(tree, bases) ==
    \A p \in Paths :
        (tree[p].kind = "link" /\ InsideSome(bases, p))
            => ~(InsideSome(bases, tree[p].tgt) /\ IsDir(tree, p))

RealExceedsDry ==
    /\ DryThenReal /\ AllRemovable(last.before, last.bases)
    /\ last.ret.bytes_freed > prev.ret.bytes_freed

Occurrences(seq, x) == Cardinality({i \in 1..Len(seq) : seq[i] = x})
TrashDenied(call) == call.op = "trash" /\ ~call.raised /\ call.denied # {}

\* C4: a trash sweep whose enumeration of the trash root was refused for lack of
\* permission attempts the automation bridge, exactly once.
C4_FallbackOnDenial == TrashDenied(last) => Occurrences(last.cmds, "osascript") = 1

\* C5: the trash sweep tries direct delete, then the bridge, then the re-exec: the
\* bridge follows a refused direct attempt and is not run otherwise; the re-exec
\* follows a failed or missing bridge in an elevated process with an invoking user,
\* and is not run otherwise; nothing follows a success.
C5_ChainOrder ==
    last.op = "trash" =>
        /\ Occurrences(last.cmds, "osascript") > 0 => last.denied # {}
        /\ Occurrences(last.cmds, "sudo") > 0 =>
              /\ last.cmds = <<"osascript", "sudo">>
              /\ tools.osascript # "ok" /\ euid = 0 /\ sudo_user # NoUser
        /\ TrashDenied(last) => Len(last.cmds) > 0 /\ last.cmds[1] = "osascript"
        /\ (TrashDenied(last) /\ tools.osascript # "ok" /\ euid = 0 /\ sudo_user \in PwKnown)
              => last.cmds = <<"osascript", "sudo">>
        /\ (TrashDenied(last) /\ tools.osascript = "ok") => last.cmds = <<"osascript">>

\* The children of the call's bases that the call removed whole, and the directories
\* among them that lost entries but are still there (fs is the tree the call left).
FullyRemoved(call) ==
    {p \in Paths : /\ Len(p) > 0 /\ Parent(p) \in call.bases
                   /\ call.before[p].kind # "none" /\ fs[p].kind = "none"}
PartialDirs(call) ==
    {p \in Paths : /\ Len(p) > 0 /\ Parent(p) \in call.bases
                   /\ call.before[p].kind = "dir" /\ fs[p].kind = "dir"
                   /\ \E q \in call.removed : IsPrefix(p, q)}
DirsIn(tree, S) == {p \in S : tree[p].kind = "dir"}
Measured(tree, p) == IF tree[p].kind = "dir" THEN get_dir_size(tree, p) ELSE tree[p].size

RECURSIVE SumMeasured(_, _)
SumMeasured(tree, S) ==
    IF S = {} THEN 0
    ELSE SumMeasured(tree, S \ {CHOOSE p \in S : TRUE})
         + Measured(tree, CHOOSE p \in S : TRUE)

\* A real sweep of the entries directly under its bases.
OneLevelReal(call) == call.op \in {"caches", "trash", "volumes"} /\ ~call.dry /\ ~call.raised

\* t is a directory directly under the listable directory b, and something in it
\* refuses removal.
RefusesBelow(f, b, t) ==
    /\ Len(t) > 0 /\ Parent(t) = b
    /\ f[b].kind = "dir" /\ f[b].perm = "ok"
    /\ f[t].kind = "dir" /\ f[t].perm = "ok"
    /\ \E p \in Under(t) : f[p].kind # "none" /\ f[p].perm = "locked"

C7_LogsOnlyFiles ==
    (last.op = "logs" /\ ~last.dry) =>
        /\ last.ret.dirs_deleted = 0
        /\ \A p \in last.removed :
              /\ last.before[p].kind \in {"file", "link"}
              /\ IsLogName(Name(p))
        /\ \A p \in Paths :
              (last.before[p].kind = "dir" \/ ~IsLogName(Name(p))) => fs[p] = last.before[p]

\* A real log sweep that removed a file from inside a directory named *.log, and
\* left that directory and a file of another suffix in place.
C7_Witness ==
    /\ last.op = "logs" /\ ~last.dry
    /\ (L \o <<"old.log", "in.txt">>) \in last.removed
    /\ fs[L \o <<"old.log">>].kind = "dir"
    /\ fs[L \o <<"old.log", "data.bin">>].kind = "file"
    /\ fs[L \o <<"keep.dat">>].kind = "file"

\* C8: no sweep lets an error reach its caller; each returns a result.
C8_NeverRaises == ~last.raised

\* The engine was built in an elevated process whose SUDO_USER names no account.
Unresolved == euid = 0 /\ sudo_user # NoUser /\ sudo_user \notin PwKnown

\* C9 (as claimed): when the invoking user cannot be resolved, a sweep reports a
\* failure and removes nothing.
C9_FailsLoudly ==
    (Unresolved /\ Swept1(last)) => last.raised /\ last.removed = {}

\* C9 (amended): when the invoking user cannot be resolved, the engine silently takes
\* the process's own home and user id, and its sweeps work on them.
C9_FallsBackSilently ==
    Unresolved =>
        /\ home = PathHome(euid)
        /\ last.op \in {"caches", "trash", "logs"} =>
              /\ ~last.raised
              /\ last.bases \subseteq
                    {CachesOf(PathHome(euid)), TrashOf(PathHome(euid)), LogsOf(PathHome(euid))}
        /\ last.op = "volumes" =>
              last.bases \subseteq {USB \o <<".Trashes", UidStr(euid)>>, USB \o <<".Trash">>}

\* An unresolved invoking user, and a real trash sweep that emptied root's own trash.
C9_Witness ==
    /\ Unresolved
    /\ last.op = "trash" /\ ~last.dry
    /\ (TrashOf(ROOTHOME) \o <<"r1">>) \in last.removed

\* The trash root of the call held nothing, or was not there.
NothingFound(call) == Children(call.before, TrashOf(call.home)) = {}

TrueSize(tree, p) ==
    IF tree[p].kind = "dir"
    THEN SumSizes(tree, {q \in Under(p) : tree[q].kind \in {"file", "link"}})
    ELSE tree[p].size

RECURSIVE SumTrue(_, _)
SumTrue(tree, S) ==
    IF S = {} THEN 0
    ELSE SumTrue(tree, S \ {CHOOSE p \in S : TRUE}) + TrueSize(tree, CHOOSE p \in S : TRUE)

\* The children of the cache root before the call, those that are directories, and
\* those that are links resolving out of the root.
CacheRoot(call) == CachesOf(call.home)
CacheKids(call) == Children(call.before, CacheRoot(call))
CacheDirs(call) == DirsIn(call.before, CacheKids(call))
CacheStrays(call) == {p \in CacheKids(call) : Outside(call.before, CacheRoot(call), p)}
LinksToDirs(tree, base) ==
    {p \in Paths : InsideSome({base}, p) /\ tree[p].kind = "link" /\ IsDir(tree, p)}

\* A real cache sweep of a root that exists and lists, every entry below it removable.
CacheSweepClean(call) ==
    /\ call.op = "caches" /\ ~call.dry
    /\ NodeAt(call.before, CacheRoot(call)).kind = "dir"
    /\ NodeAt(call.before, CacheRoot(call)).perm = "ok"
    /\ AllRemovable(call.before, {CacheRoot(call)})

\* C11 (as claimed): a real cache sweep of removable children runs no command, counts
\* every non-directory child as a file, every directory child as a directory and the
\* sizes of all of them, and leaves the root in place with no children.
C11_CacheTotals ==
    CacheSweepClean(last) =>
        /\ last.cmds = <<>>
        /\ last.ret.files_deleted = Cardinality(CacheKids(last) \ CacheDirs(last))
        /\ last.ret.dirs_deleted = Cardinality(CacheDirs(last))
        /\ last.ret.bytes_freed = SumTrue(last.before, CacheKids(last))
        /\ fs[CacheRoot(last)].kind = "dir"
        /\ Children(fs, CacheRoot(last)) = {}

\* C11 (amended): the children that are links resolving out of the root are skipped
\* and stay; the others are removed and counted, the root stays, no command runs, and
\* nothing but children of the root is handed to the safe delete.  The bytes are the
\* sizes of the removed children when no link below the root names a directory, and
\* never more than that.
C11_CacheTotalsInside ==
    /\ last.op = "caches" => last.cmds = <<>> /\ last.bases \subseteq {CacheRoot(last)}
    /\ CacheSweepClean(last) =>
          /\ last.ret.files_deleted =
                Cardinality((CacheKids(last) \ CacheDirs(last)) \ CacheStrays(last))
          /\ last.ret.dirs_deleted = Cardinality(CacheDirs(last))
          /\ last.ret.bytes_freed <= SumTrue(last.before, CacheKids(last) \ CacheStrays(last))
          /\ LinksToDirs(last.before, CacheRoot(last)) = {} =>
                last.ret.bytes_freed = SumTrue(last.before, CacheKids(last) \ CacheStrays(last))
          /\ fs[CacheRoot(last)].kind = "dir"
          /\ Children(fs, CacheRoot(last)) = CacheStrays(last)
          /\ \A p \in CacheStrays(last) : fs[p] = last.before[p]

\* A real cache sweep that removed a directory of two files and a file, and left the
\* root empty.
C11_Witness ==
    /\ CacheSweepClean(last)
    /\ last.ret = CleanStats(7, 1, 1)
    /\ CacheStrays(last) = {}
    /\ Children(fs, C) = {}

\* The files and links at any depth below d that can be reached through real,
\* listable and searchable directories only.
ReadableLeaves(tree, d) ==
    {q \in Under(d) :
        /\ tree[q].kind \in {"file", "link"}
        /\ \A a \in Paths :
              (IsPrefix(d, a) /\ IsPrefix(a, q) /\ a # q)
                  => tree[a].kind = "dir" /\ tree[a].perm \notin {"noread", "nosearch"}}

\* C12: the size of a directory is the sum of the own sizes of every readable file
\* and every link below it, a link to a directory included, links never followed; a
\* missing or unreadable root gives 0.
C12_DirectorySize ==
    \A d \in Paths : get_dir_size(fs, d) = SumSizes(fs, ReadableLeaves(fs, d))

\* The root and the minimum of the latest scan, and the entries the claim names: the
\* files and links to files below the root, above the minimum, with no directory
\* named Library, System or .Trash between the root and them.
ScanRoot == ArgOr(found.directory, home)
ScanMin == ArgOr(found.min_size_mb, DefaultMinSizeMb)
Expected ==
    {q \in DOMAIN fs :
        /\ IsPrefix(ScanRoot, q) /\ q # ScanRoot
        /\ fs[q].kind \in {"file", "link"} /\ ~IsDirEntry(fs, q)
        /\ fs[q].size > ScanMin * MiB
        /\ \A a \in DOMAIN fs :
              (IsPrefix(ScanRoot, a) /\ IsPrefix(a, q) /\ a # q)
                  => fs[a].kind = "dir" /\ (a # ScanRoot => Name(a) \notin SkippedDirs)}
ResultPaths == {found.result[i].path : i \in 1..Len(found.result)}

\* The result holds entries the claim names, each once and with its own size,
\* largest first, and none left out is larger than one that is in.
LargestFirst ==
    /\ ResultPaths \subseteq Expected
    /\ Cardinality(ResultPaths) = Len(found.result)
    /\ \A i \in 1..Len(found.result) : found.result[i].size = fs[found.result[i].path].size
    /\ \A i, j \in 1..Len(found.result) :
          i < j => found.result[i].size >= found.result[j].size
    /\ \A q \in Expected \ ResultPaths, r \in ResultPaths : fs[q].size <= fs[r].size

AtMost(n, S) == IF n < Cardinality(S) THEN n ELSE Cardinality(S)

\* C13 (as claimed): the result is the named entries, largest first, cut to limit,
\* and all of them when limit is 0 or left out.
C13_FindLarge ==
    found.scanned =>
        /\ LargestFirst
        /\ Len(found.result) =
              IF ~found.limit.set \/ found.limit.val = 0 THEN Cardinality(Expected)
              ELSE AtMost(found.limit.val, Expected)

\* C13 (amended): a limit left out is the default of 20; only a limit of 0 means all.
C13_FindLargeDefault ==
    found.scanned =>
        /\ LargestFirst
        /\ Len(found.result) =
              IF ArgOr(found.limit, DefaultLimit) = 0 THEN Cardinality(Expected)
              ELSE AtMost(ArgOr(found.limit, DefaultLimit), Expected)

\* A scan of the home directory with the default minimum and no cut: the three files
\* above 100 MiB outside Library, System and .Trash, and not the larger ones inside.
C13_Witness ==
    /\ found.scanned /\ ~found.directory.set /\ ~found.min_size_mb.set
    /\ found.limit = Given(0)
    /\ home = ALICE /\ BULK \notin Expected
    /\ found.result = << [path |-> ALICE \o <<"big.bin">>, size |-> 200 * MiB],
                         [path |-> WORK \o <<"same.bin">>, size |-> 200 * MiB],
                         [path |-> WORK \o <<"mid.bin">>, size |-> 120 * MiB] >>
    /\ fs[ALICE \o <<".Trash", "old.bin">>].size = 300 * MiB

\* The trash locations of the volumes that exist in a tree for the sweep's user.
VolumeTrashes(tree) ==
    {c \in {USB \o <<".Trashes", UidStr(TargetUid(euid, sudo_user))>>, USB \o <<".Trash">>} :
        Exists(tree, c)}

LinkInside(f, b, t) ==
    /\ InsideSome({b}, t)
    /\ f[b].kind = "dir"
    /\ f[t].kind = "link" /\ f[t].perm = "ok"
    /\ f[Parent(t)].kind = "dir" /\ f[Parent(t)].perm # "nosearch"

\* The delete took the link alone and reported its own size.
TookLink(f, t, r) ==
    /\ r.got = CleanStats(f[t].size, 1, 0)
    /\ r.removed = {t}
    /\ r.fs = [f EXCEPT ![t] = None]

\* The dry delete reported the link's own size and took nothing.
WouldTakeLink(f, t, r) == r.got = CleanStats(f[t].size, 1, 0) /\ r.fs = f /\ r.removed = {}

\* C15 (as claimed): the safe delete of a link inside the base unlinks the link, leaves
\* everything else, its referent included, and returns its own size as one file,
\* whatever the link points to.
C15_LinkItself ==
    calls = 0 =>
        \A b \in SweepRoots, t \in Paths :
            LinkInside(fs, b, t) =>
                /\ TookLink(fs, t, _safe_delete(fs, stale, FALSE, b, t))
                /\ WouldTakeLink(fs, t, _safe_delete(fs, stale, TRUE, b, t))

\* C15 (amended): so it is for a link that resolves inside the base; a link that
\* resolves outside the base is skipped, returns (0,0,0) and stays, as its referent.
C15_LinkItselfInside ==
    calls = 0 =>
        \A b \in SweepRoots, t \in Paths :
            LinkInside(fs, b, t) =>
                IF Outside(fs, b, t)
                THEN /\ SkipsIt(_safe_delete(fs, stale, FALSE, b, t))
                     /\ SkipsIt(_safe_delete(fs, stale, TRUE, b, t))
                ELSE /\ TookLink(fs, t, _safe_delete(fs, stale, FALSE, b, t))
                     /\ WouldTakeLink(fs, t, _safe_delete(fs, stale, TRUE, b, t))

\* A real cache sweep that unlinked a link to a file of the same root and left the
\* file, which refuses removal, in place: the link's own size, one file.
C15_Witness ==
    /\ last.op = "caches" /\ ~last.dry
    /\ last.before[C \o <<"c1">>] = Link(C \o <<"c2">>)
    /\ last.removed = {C \o <<"c1">>}
    /\ fs[C \o <<"c2">>] = Locked(1)
    /\ last.ret = CleanStats(5, 1, 0)

\* C16: after any sequence of sweeps of one engine, self.stats is the field-wise sum
\* of the CleanStats the sweeps returned and cleaned_size is the bytes_freed of it.
C16_StatsAreSum ==
    /\ stats = returned
    /\ cleaned_size = returned.bytes_freed

\* Two sweeps of one engine that both returned something.
C16_Witness ==
    /\ calls = 2
    /\ prev.ret.files_deleted > 0 /\ last.ret.files_deleted > 0
    /\ stats = AddStats(prev.ret, last.ret)
    /\ returned = AddStats(prev.ret, last.ret)

====
